---- MODULE Spec2Model ----
(***************************************************************************)
(* Verification model of the CS146 coursework notebooks.                   *)
(*                                                                         *)
(* Session 3.1, Task 3: the cell that computes the posterior               *)
(* normal-inverse-gamma hyperparameters (mu_post, nu_post, alpha_post,     *)
(* beta_post) from the prior hyperparameters (mu_0, nu_0, alpha_0, beta_0) *)
(* and a data vector.  Sessions 3.1 and 4.1: the helpers norminvgamma_pdf *)
(* and norminvgamma_rvs, and the cell that samples and plots.  Session     *)
(* 3.2: the likelihood cell and beta_binomial_pmf of the eczema notebook,  *)
(* and the margin-of-error cells (MOE) of the notebook that follows it.    *)
(*                                                                         *)
(* Numbers.  The notebook computes with Python floats and numpy float64    *)
(* scalars.  A value is modelled as a record                               *)
(*     [k |-> "num", num |-> a, den |-> b]   the exact rational a/b,       *)
(*     [k |-> "inf", num |-> +1 or -1, ...]  an IEEE infinity,             *)
(*     [k |-> "nan", ...]                    IEEE not-a-number,            *)
(* so rounding error is abstracted away (a rational stands for the float   *)
(* nearest to it) while the special values numpy produces instead of       *)
(* raising (nan for the mean of an empty array, inf for a float64 divided  *)
(* by zero) are kept.                                                      *)
(***************************************************************************)
EXTENDS Integers, Sequences, FiniteSets, TLC

VARIABLES
    mu_0, nu_0, alpha_0, beta_0,      \* prior hyperparameters (top-level names)
    data, mean_d, n, max_likelihood,  \* names bound by the posterior cell
    mu_post, nu_post, alpha_post, beta_post,
    pc,                               \* "prior": posterior cell not run yet;
                                      \* "posterior": it ran to its end
    execution_count,                  \* how often the posterior cell has run
    density_args, density,            \* a call of norminvgamma_pdf: its
                                      \* arguments (<< >> before it) and result
    rvs_size, samples, rvs_calls,     \* a call of norminvgamma_rvs: its size
                                      \* argument, its result, and the scipy
                                      \* calls it made, in order, with outputs
    curves,                           \* what the sampling cell plots: one
                                      \* normal density per sample
    pmf_args, pmf,                    \* a call of beta_binomial_pmf
    likelihood_p, likelihood_n,       \* the names p, n, likelihood bound by the
    likelihood, likelihood_pmf,       \* likelihood cell, and what it plots
    inline_moe,                       \* value of the inline margin-of-error cell
    moe_args, moe,                    \* a call of MOE
    sample_sizes, per,                \* the error margin matrix: per[10] is the
                                      \* list per_10, ..., per[90] the list per_90
    raised                            \* exception the latest call or cell ended
                                      \* with, "none" when it ran to its end

posterior_vars == << data, mean_d, n, max_likelihood, mu_post, nu_post,
                     alpha_post, beta_post, pc, execution_count >>

pdf_vars == << density_args, density >>

sampler_vars == << rvs_size, samples, rvs_calls, curves >>

pmf_vars == << pmf_args, pmf >>

likelihood_vars == << likelihood_p, likelihood_n, likelihood, likelihood_pmf >>

poll_vars == << inline_moe, moe_args, moe, sample_sizes, per >>

vars == << mu_0, nu_0, alpha_0, beta_0, data, mean_d, n, max_likelihood,
           mu_post, nu_post, alpha_post, beta_post, pc, execution_count,
           density_args, density, rvs_size, samples, rvs_calls, curves,
           pmf_args, pmf, likelihood_p, likelihood_n, likelihood,
           likelihood_pmf, inline_moe, moe_args, moe, sample_sizes, per,
           raised >>

----------------------------------------------------------------------------
(* Bounds of the model *)

\* longest data vector
MaxN == 4
\* observations are the integers 1..MaxVal
MaxVal == 4
\* executions of the posterior cell in the re-run specification
MaxRuns == 2

----------------------------------------------------------------------------
(* Float arithmetic *)

Abs(i) == IF i < 0 THEN -i ELSE i

RECURSIVE GCD(_, _)
GCD(a, b) == IF b = 0 THEN a ELSE GCD(b, a % b)

\* the rational a/b (b # 0) in lowest terms with a positive denominator
Num(a, b) ==
    LET s == IF b < 0 THEN -1 ELSE 1
        g == GCD(Abs(a), Abs(b))
    IN  [k |-> "num", num |-> (s * a) \div g, den |-> (s * b) \div g]

NaN == [k |-> "nan", num |-> 0, den |-> 1]

Inf(s) == [k |-> "inf", num |-> s, den |-> 1]

\* a name the kernel has not bound yet
Unbound == [k |-> "unbound", num |-> 0, den |-> 1]

Sign(x) == IF x.num > 0 THEN 1 ELSE IF x.num < 0 THEN -1 ELSE 0

FNeg(x) == [x EXCEPT !.num = -x.num]

FAdd(x, y) ==
    IF x.k = "nan" \/ y.k = "nan" THEN NaN
    ELSE IF x.k = "inf" THEN (IF y.k = "inf" /\ y.num # x.num THEN NaN ELSE x)
    ELSE IF y.k = "inf" THEN y
    ELSE LET g == GCD(x.den, y.den)
         IN  Num(x.num * (y.den \div g) + y.num * (x.den \div g),
                 (x.den \div g) * y.den)

FSub(x, y) == FAdd(x, FNeg(y))

FMul(x, y) ==
    IF x.k = "nan" \/ y.k = "nan" THEN NaN
    ELSE IF x.k = "inf" \/ y.k = "inf"
         THEN (IF Sign(x) = 0 \/ Sign(y) = 0 THEN NaN ELSE Inf(Sign(x) * Sign(y)))
    ELSE LET g1 == GCD(Abs(x.num), y.den)
             g2 == GCD(Abs(y.num), x.den)
         IN  Num((x.num \div g1) * (y.num \div g2),
                 (x.den \div g2) * (y.den \div g1))

\* numpy float64 division: a division by zero gives inf or nan, never raises
FDiv(x, y) ==
    IF x.k = "nan" \/ y.k = "nan" THEN NaN
    ELSE IF x.k = "inf"
         THEN (IF y.k = "inf" THEN NaN
               ELSE Inf(x.num * (IF Sign(y) < 0 THEN -1 ELSE 1)))
    ELSE IF y.k = "inf" THEN Num(0, 1)
    ELSE IF y.num = 0
         THEN (IF x.num = 0 THEN NaN ELSE Inf(Sign(x)))
    ELSE FMul(x, Num(y.den, y.num))

\* x ** 2
FSq(x) == FMul(x, x)

\* x < y as floats: every comparison with nan is false
FLt(x, y) ==
    /\ x.k # "nan"
    /\ y.k # "nan"
    /\ IF x.k = "inf" THEN x.num < 0 /\ ~(y.k = "inf" /\ y.num < 0)
       ELSE IF y.k = "inf" THEN y.num > 0
       ELSE x.num * y.den < y.num * x.den

FLeq(x, y) == x.k # "nan" /\ y.k # "nan" /\ (x = y \/ FLt(x, y))

Zero == Num(0, 1)

\* x > 0
Pos(x) == FLt(Zero, x)

\* x >= 0
NonNeg(x) == FLeq(Zero, x)

----------------------------------------------------------------------------
(* numpy reductions over the data vector *)

RECURSIVE Sum(_)
Sum(ds) == IF ds = << >> THEN 0 ELSE Head(ds) + Sum(Tail(ds))

\* as np.mean, returning the first observation
np_mean_FirstObservation(ds) == IF Len(ds) = 0 THEN NaN ELSE Num(Head(ds), 1)

\* np.mean(data): nan (and a RuntimeWarning) for an empty array
np_mean(ds) == IF Len(ds) = 0 THEN NaN ELSE Num(Sum(ds), Len(ds))

RECURSIVE SumSqDev(_, _)
SumSqDev(ds, m) ==
    IF ds = << >> THEN Num(0, 1)
    ELSE FAdd(FSq(FSub(Num(Head(ds), 1), m)), SumSqDev(Tail(ds), m))

\* np.var(data, ddof = 0): the population variance, nan for an empty array
np_var(ds) ==
    IF Len(ds) = 0 THEN NaN
    ELSE FDiv(SumSqDev(ds, np_mean(ds)), Num(Len(ds), 1))

----------------------------------------------------------------------------
(* The update equations as the cell writes them *)

\* as MuPost, divided by the prior weight nu_0 alone
MuPost_PriorWeightOnly(mu0, nu0, cnt, md) ==
    FDiv(FAdd(FMul(nu0, mu0), FMul(Num(cnt, 1), md)), nu0)

\* as MuPost, with the data mean not weighted by the count n
MuPost_Unweighted(mu0, nu0, cnt, md) ==
    FDiv(FAdd(FMul(nu0, mu0), md), FAdd(nu0, Num(cnt, 1)))

\* mu_post = (nu_0*mu_0 + n*mean_d) / (nu_0 + n)
MuPost(mu0, nu0, cnt, md) ==
    FDiv(FAdd(FMul(nu0, mu0), FMul(Num(cnt, 1), md)), FAdd(nu0, Num(cnt, 1)))

\* as NuPost, with the n/2 of the alpha line
NuPost_HalfCount(nu0, cnt) == FAdd(nu0, Num(cnt, 2))

\* as NuPost, with the update for a single observation
NuPost_SingleObservation(nu0, cnt) == FAdd(nu0, Num(1, 1))

\* nu_post = nu_0 + n
NuPost(nu0, cnt) == FAdd(nu0, Num(cnt, 1))

\* as AlphaPost, with a truncating division (n // 2)
AlphaPost_FloorDiv(alpha0, cnt) == FAdd(alpha0, Num(cnt \div 2, 1))

\* alpha_post = alpha_0 + (n/2)        (Python 3: / is true division)
AlphaPost(alpha0, cnt) == FAdd(alpha0, Num(cnt, 2))

\* as BetaPost, with (nu_0 - n) for (nu_0 + n)
BetaPost_MinusCount(beta0, nu0, cnt, md, ml) ==
    FAdd(FAdd(beta0, FMul(Num(1, 2), ml)),
         FMul(FDiv(FMul(FMul(Num(cnt, 1), nu0), FSq(FSub(md, nu0))),
                   FSub(nu0, Num(cnt, 1))),
              Num(2, 1)))

\* beta_post = beta_0 + (0.5*max_likelihood)
\*             + ((n*nu_0 * (mean_d - nu_0)**2)/(nu_0 + n)*2)
BetaPost(beta0, nu0, cnt, md, ml) ==
    FAdd(FAdd(beta0, FMul(Num(1, 2), ml)),
         FMul(FDiv(FMul(FMul(Num(cnt, 1), nu0), FSq(FSub(md, nu0))),
                   FAdd(nu0, Num(cnt, 1))),
              Num(2, 1)))

----------------------------------------------------------------------------
(* numpy / scipy.stats primitives used by the helpers.  A density value is  *)
(* kept as a term naming the distribution, its parameters and the point it *)
(* is evaluated at; np.sqrt of a rational q >= 0 is the term               *)
(* [k |-> "sqrt", num, den] standing for sqrt(q).                          *)

\* np.sqrt: nan (and a RuntimeWarning) for a negative argument
np_sqrt(v) ==
    IF v.k = "nan" THEN NaN
    ELSE IF v.k = "inf" THEN (IF v.num > 0 THEN v ELSE NaN)
    ELSE IF v.num < 0 THEN NaN
    ELSE [k |-> "sqrt", num |-> v.num, den |-> v.den]

\* scale > 0 (false for nan)
ScalePos(sc) == sc.k \in {"sqrt", "num", "inf"} /\ sc.num > 0

\* scale >= 0 (false for nan)
ScaleNonNeg(sc) == sc.k \in {"sqrt", "num", "inf"} /\ sc.num >= 0

\* scale ** 2, the variance of a normal distribution of that scale
ScaleSquared(sc) ==
    IF sc.k = "sqrt" THEN Num(sc.num, sc.den) ELSE FSq(sc)

\* sts.norm.pdf(x, loc, scale): nan unless scale > 0, no exception
norm_pdf(x, loc, sc) ==
    IF ~ScalePos(sc) THEN NaN
    ELSE IF sc.k = "inf" THEN Zero
    ELSE [k |-> "norm.pdf", at |-> x, mean |-> loc, var |-> ScaleSquared(sc)]

\* sts.invgamma.pdf(y, a, scale): nan unless a > 0 and scale > 0, 0 left of
\* the support, no exception.  At y = 0 the value is nan or 0 depending on
\* the scipy release; nan is taken here.
invgamma_pdf(y, a, sc) ==
    IF ~Pos(a) \/ ~Pos(sc) THEN NaN
    ELSE IF y.k = "nan" THEN NaN
    ELSE IF FLt(y, Zero) THEN Zero
    ELSE IF y = Zero THEN NaN
    ELSE [k |-> "invgamma.pdf", at |-> y, shape |-> a, scale |-> sc]

\* the float product p * q of two density values
DensityMul(p, q) ==
    IF p.k = "nan" \/ q.k = "nan" THEN NaN
    ELSE IF p = Zero \/ q = Zero THEN Zero
    ELSE [k |-> "product", normal |-> p, invgamma |-> q]

\* as norminvgamma_pdf, with scale = sigma2 / nu (the np.sqrt left out)
norminvgamma_pdf_NoSqrt(x, sigma2, mu, nu, alpha, beta) ==
    DensityMul(norm_pdf(x, mu, FDiv(sigma2, nu)),
               invgamma_pdf(sigma2, alpha, beta))

\* norminvgamma_pdf(x, sigma2, mu, nu, alpha, beta)
norminvgamma_pdf(x, sigma2, mu, nu, alpha, beta) ==
    DensityMul(norm_pdf(x, mu, np_sqrt(FDiv(sigma2, nu))),
               invgamma_pdf(sigma2, alpha, beta))

\* sts.invgamma.rvs(a, scale, size) raises ValueError unless a > 0, scale >= 0
invgamma_rvs_argcheck(a, sc) == Pos(a) /\ NonNeg(sc)

\* as invgamma.rvs, every draw underflowing to 0.0
invgamma_rvs_Underflow(a, sc, size, g) == [i \in 1..size |-> Zero]

\* sts.invgamma.rvs(a, scale, size): scale times a standard draw g[i] > 0
invgamma_rvs(a, sc, size, g) == [i \in 1..size |-> FMul(sc, g[i])]

\* sts.norm.rvs(loc, scale, size) raises ValueError unless every scale >= 0
norm_rvs_argcheck(sc) == \A i \in 1..Len(sc) : ScaleNonNeg(sc[i])

\* sts.norm.rvs(loc, scale, size): the i-th entry is a draw from the normal
\* distribution of mean loc and standard deviation scale[i], kept as a term;
\* z[i] tells the draws of one array apart
norm_rvs(loc, sc, size, z) ==
    [i \in 1..size |->
        [k |-> "norm.rvs", mean |-> loc, var |-> ScaleSquared(sc[i]), z |-> z[i]]]

\* np.vstack of a tuple of 1-d arrays: the arrays become the rows
np_vstack(arrays) == arrays

\* ndarray.transpose() of a matrix with at least one row
transpose(m) == [i \in 1..Len(m[1]) |-> [j \in 1..Len(m) |-> m[j][i]]]

\* what a call that raised leaves behind; in calls, the scipy call that
\* raised has the empty output
Raised(exc, calls) == [raised |-> exc, calls |-> calls, value |-> Unbound]

\* as norminvgamma_rvs, with np.vstack((sigma2, x))
norminvgamma_rvs_SwappedColumns(mu, nu, alpha, beta, size, g, z) ==
    IF ~invgamma_rvs_argcheck(alpha, beta)
    THEN Raised("ValueError", << [f |-> "invgamma.rvs", out |-> << >>] >>)
    ELSE LET sigma2 == invgamma_rvs(alpha, beta, size, g)
             sc == [i \in 1..size |-> np_sqrt(FDiv(sigma2[i], nu))]
         IN  IF ~norm_rvs_argcheck(sc)
             THEN Raised("ValueError", << [f |-> "invgamma.rvs", out |-> sigma2],
                                          [f |-> "norm.rvs", out |-> << >>] >>)
             ELSE LET x == norm_rvs(mu, sc, size, z)
                  IN  [raised |-> "none",
                       calls |-> << [f |-> "invgamma.rvs", out |-> sigma2],
                                    [f |-> "norm.rvs", out |-> x] >>,
                       value |-> transpose(np_vstack(<< sigma2, x >>))]

\* as norminvgamma_rvs, with scale = np.sqrt(sigma2[0] / nu) for every row
norminvgamma_rvs_FirstVariance(mu, nu, alpha, beta, size, g, z) ==
    IF ~invgamma_rvs_argcheck(alpha, beta)
    THEN Raised("ValueError", << [f |-> "invgamma.rvs", out |-> << >>] >>)
    ELSE LET sigma2 == invgamma_rvs(alpha, beta, size, g)
             sc == [i \in 1..size |-> np_sqrt(FDiv(sigma2[1], nu))]
         IN  IF ~norm_rvs_argcheck(sc)
             THEN Raised("ValueError", << [f |-> "invgamma.rvs", out |-> sigma2],
                                          [f |-> "norm.rvs", out |-> << >>] >>)
             ELSE LET x == norm_rvs(mu, sc, size, z)
                  IN  [raised |-> "none",
                       calls |-> << [f |-> "invgamma.rvs", out |-> sigma2],
                                    [f |-> "norm.rvs", out |-> x] >>,
                       value |-> transpose(np_vstack(<< x, sigma2 >>))]

\* norminvgamma_rvs(mu, nu, alpha, beta, size); g and z are the random draws
\* the two scipy generators make
norminvgamma_rvs(mu, nu, alpha, beta, size, g, z) ==
    IF ~invgamma_rvs_argcheck(alpha, beta)
    THEN Raised("ValueError", << [f |-> "invgamma.rvs", out |-> << >>] >>)
    ELSE LET sigma2 == invgamma_rvs(alpha, beta, size, g)
             sc == [i \in 1..size |-> np_sqrt(FDiv(sigma2[i], nu))]
         IN  IF ~norm_rvs_argcheck(sc)
             THEN Raised("ValueError", << [f |-> "invgamma.rvs", out |-> sigma2],
                                          [f |-> "norm.rvs", out |-> << >>] >>)
             ELSE LET x == norm_rvs(mu, sc, size, z)
                  IN  [raised |-> "none",
                       calls |-> << [f |-> "invgamma.rvs", out |-> sigma2],
                                    [f |-> "norm.rvs", out |-> x] >>,
                       value |-> transpose(np_vstack(<< x, sigma2 >>))]

\* scipy.special.comb(m, k): the number of k-subsets of an m-set, 0 for k
\* outside 0..m
RECURSIVE comb(_, _)
comb(m, k) ==
    IF k < 0 \/ k > m THEN 0
    ELSE IF k = 0 THEN 1
    ELSE (comb(m - 1, k - 1) * m) \div k

\* scipy.special.beta(a, b) for positive integers a, b, by
\* B(a, 1) = 1/a and B(a, b) = B(a, b-1) * (b-1)/(a+b-1)
RECURSIVE beta_function(_, _)
beta_function(a, b) ==
    IF b = 1 THEN Num(1, a)
    ELSE FMul(beta_function(a, b - 1), Num(b - 1, a + b - 1))

\* as beta_binomial_pmf, the two shape parameters exchanged
beta_binomial_pmf_SwappedShapes(k, trials, alpha, beta) ==
    FDiv(FMul(Num(comb(trials, k), 1),
              beta_function(k + beta, trials - k + alpha)),
         beta_function(alpha, beta))

\* as beta_binomial_pmf, the factor comb(n, k) left out
beta_binomial_pmf_NoComb(k, trials, alpha, beta) ==
    FDiv(beta_function(k + alpha, trials - k + beta),
         beta_function(alpha, beta))

\* as beta_binomial_pmf, the division by beta_function(alpha, beta) left out
beta_binomial_pmf_Unnormalised(k, trials, alpha, beta) ==
    FMul(Num(comb(trials, k), 1),
         beta_function(k + alpha, trials - k + beta))

\* beta_binomial_pmf(k, n, alpha, beta)
beta_binomial_pmf(k, trials, alpha, beta) ==
    FDiv(FMul(Num(comb(trials, k), 1),
              beta_function(k + alpha, trials - k + beta)),
         beta_function(alpha, beta))

\* stats.binom(n, p).pmf(x): nan unless n >= 0 and 0 <= p <= 1, no exception
binom_pmf(x, trials, prob) ==
    IF trials >= 0 /\ FLeq(Zero, prob) /\ FLeq(prob, Num(1, 1))
    THEN [k |-> "binom.pmf", at |-> x, n |-> trials, p |-> prob]
    ELSE NaN

\* as the right-hand side of p, the sum in the denominator: 107/(107+34)
LikelihoodP_Proportion == FDiv(Num(107, 1), FAdd(Num(107, 1), Num(34, 1)))

\* the right-hand side of p = (107/107+34): / binds tighter than +
LikelihoodP == FAdd(FDiv(Num(107, 1), Num(107, 1)), Num(34, 1))

\* the right-hand side of n = 107 + 34
LikelihoodN == 107 + 34

\* x = np.linspace(0,150,100), the abscissae of the likelihood plot
linspace_k == [k |-> "linspace", start |-> 0, stop |-> 150, num |-> 100]

----------------------------------------------------------------------------
(* The margin of error (second notebook of Session 3.2).  A value that     *)
(* involves the normal quantile z = stats.norm.ppf(0.975) is kept as the    *)
(* term [k |-> "zroot", base, sgn, sq] standing for                        *)
(* base + sgn * z * sqrt(sq), with base and sq rational and sq >= 0.        *)

ZRoot(b, sgn, sq) ==
    [k |-> "zroot", base |-> b, sgn |-> IF sq = Zero THEN 0 ELSE sgn, sq |-> sq]

\* r - v, for a float r
ZRSub(r, v) == ZRoot(FSub(r, v.base), -v.sgn, v.sq)

\* v - r, for a float r
ZSub(v, r) == ZRoot(FSub(v.base, r), v.sgn, v.sq)

\* v / r, for a float r # 0
ZDiv(v, r) == ZRoot(FDiv(v.base, r), v.sgn * Sign(r), FDiv(v.sq, FSq(r)))

\* v * r, for a float r
ZMul(v, r) == ZRoot(FMul(v.base, r), v.sgn * Sign(r), FMul(v.sq, FSq(r)))

\* abs(v), where the sign of v shows without the value of z
ZAbs(v) ==
    IF v.base = Zero THEN ZRoot(v.base, Abs(v.sgn), v.sq)
    ELSE IF Pos(v.base) /\ v.sgn >= 0 THEN v
    ELSE IF FLt(v.base, Zero) /\ v.sgn <= 0 THEN ZRoot(FNeg(v.base), -v.sgn, v.sq)
    ELSE [k |-> "abs", of |-> v]

\* z ** 2 = 3.84145882..., between these two rationals
ZSquaredLow == Num(38414, 10000)

ZSquaredHigh == Num(38415, 10000)

\* np.round(v, 0) of v = z * sqrt(sq): the whole number r with
\* r - 1/2 < v < r + 1/2, that is (2r-1)^2 / 4 < z^2 sq < (2r+1)^2 / 4
\* (v < 100 for every margin of error in percent)
np_round(v) ==
    CHOOSE r \in 0..100 :
        /\ FLt(Num((2 * r - 1) * (2 * r - 1), 4), FMul(ZSquaredLow, v.sq))
        /\ FLt(FMul(ZSquaredHigh, v.sq), Num((2 * r + 1) * (2 * r + 1), 4))

\* stats.norm(loc, scale).interval(0.95)[1], the upper end of the central
\* 95% interval: loc + z * scale; nan unless scale > 0
norm_interval_upper(loc, sc) ==
    IF ~ScalePos(sc) THEN NaN ELSE ZRoot(loc, 1, ScaleSquared(sc))

\* as MOE, with the standard deviation sqrt(n*p) of a count without the
\* factor (1-p)
MOE_NoComplement(sample, p) ==
    LET np == FMul(Num(sample, 1), p)
        upper == norm_interval_upper(np, np_sqrt(np))
    IN  ZMul(ZDiv(ZSub(upper, np), Num(sample, 1)), Num(100, 1))

\* as MOE, divided by the 1000 of the inline cell instead of n
MOE_InlineDivisor(sample, p) ==
    LET np == FMul(Num(sample, 1), p)
        upper == norm_interval_upper(np, np_sqrt(FMul(np, FSub(Num(1, 1), p))))
    IN  ZMul(ZDiv(ZSub(upper, np), Num(1000, 1)), Num(100, 1))

\* as MOE, with the variance n*p*(1-p) of the count as scale
MOE_VarianceAsScale(sample, p) ==
    LET np == FMul(Num(sample, 1), p)
        upper == norm_interval_upper(np, FMul(np, FSub(Num(1, 1), p)))
    IN  ZMul(ZDiv(ZSub(upper, np), Num(sample, 1)), Num(100, 1))

\* MOE(n, p)
MOE(sample, p) ==
    LET np == FMul(Num(sample, 1), p)
        upper == norm_interval_upper(np, np_sqrt(FMul(np, FSub(Num(1, 1), p))))
    IN  ZMul(ZDiv(ZSub(upper, np), Num(sample, 1)), Num(100, 1))

\* the inline cell: n = 1000, p = 0.1, q = 1-p, mean = n*p, and
\* (abs(mean - norm.interval(0.95)[1]))/1000 * 100
InlineMOE ==
    LET p == Num(1, 10)
        q == FSub(Num(1, 1), p)
        mean == FMul(Num(1000, 1), p)
        upper == norm_interval_upper(FMul(Num(1000, 1), p),
                                     np_sqrt(FMul(FMul(Num(1000, 1), p), q)))
    IN  ZMul(ZDiv(ZAbs(ZRSub(mean, upper)), Num(1000, 1)), Num(100, 1))

----------------------------------------------------------------------------
(* Inputs *)

\* sample_sizes = [1000, 750, 500, 250, 100]
SampleSizes == << 1000, 750, 500, 250, 100 >>

\* the proportions 10%, ..., 90% of the lists per_10 .. per_90
Percentages == { 10, 20, 30, 40, 50, 60, 70, 80, 90 }

\* largest of the small sample sizes MOE is called with, next to those of
\* the matrix
MaxSample == 3

\* sample sizes and proportions MOE is called with
MoeSizes == (1..MaxSample) \cup { SampleSizes[i] : i \in 1..Len(SampleSizes) }

Proportions == { Num(pct, 100) : pct \in Percentages }

\* largest size argument of a sampling call
MaxSize == 2

\* values a standard inverse-gamma draw may take (all positive) ...
GammaDraws == { Num(1, 2), Num(1, 1), Num(2, 1) }

\* ... and labels of the standard normal draws
NormalDraws == { -1, 1 }

\* largest number of trials n and largest shape parameter of a pmf call
MaxTrials == 4

MaxShape == 3

RECURSIVE SeqsUpTo(_, _)
SeqsUpTo(S, len) ==
    IF len = 0 THEN { << >> }
    ELSE LET shorter == SeqsUpTo(S, len - 1)
         IN  shorter \cup { Append(s, v) : s \in { t \in shorter : Len(t) = len - 1 }, v \in S }

\* the data vectors the posterior cell is run on
Datasets == SeqsUpTo(1 .. MaxVal, MaxN)

\* the data vectors the cell is re-run on
RerunDatasets == SeqsUpTo({1, MaxVal}, MaxN)

\* the sum of the squared observations
RECURSIVE SumOfSquares(_)
SumOfSquares(ds) ==
    IF ds = << >> THEN 0 ELSE Head(ds) * Head(ds) + SumOfSquares(Tail(ds))

\* two data vectors with the same count, mean and sum of squared deviations
\* (given count and sum, equal sums of squares are equal squared deviations)
SameStatistics(ds1, ds2) ==
    /\ Len(ds1) = Len(ds2)
    /\ Sum(ds1) = Sum(ds2)
    /\ SumOfSquares(ds1) = SumOfSquares(ds2)

\* the observations in non-decreasing order
IsSorted(ds) == \A i \in 1..(Len(ds) - 1) : ds[i] <= ds[i + 1]

\* one data vector for every collection of observations
SortedDatasets == { ds \in Datasets : IsSorted(ds) }

\* priors with nu_0, alpha_0, beta_0 > 0
ValidPriors ==
    { Num(-1, 1), Num(0, 1), Num(2, 1) } \X { Num(1, 2), Num(1, 1) }
        \X { Num(1, 1), Num(3, 2) } \X { Num(1, 2), Num(1, 1) }

\* priors with a non-positive nu_0, alpha_0 or beta_0
InvalidPriors ==
    { << Num(0, 1), Num(-1, 1), Num(1, 1), Num(1, 1) >>,
      << Num(0, 1), Num(0, 1), Num(1, 1), Num(1, 1) >>,
      << Num(0, 1), Num(1, 1), Num(0, 1), Num(1, 1) >>,
      << Num(0, 1), Num(1, 1), Num(-1, 1), Num(1, 1) >>,
      << Num(0, 1), Num(1, 1), Num(1, 1), Num(0, 1) >>,
      << Num(0, 1), Num(1, 1), Num(1, 1), Num(-1, 2) >> }

\* the values the prior cell may be edited to hold (small rationals, so that
\* the exact arithmetic stays within TLC's integers)
Priors == ValidPriors \cup InvalidPriors

\* points at which the density is evaluated: candidate means x ...
XValues == { Num(-1, 1), Num(0, 1), Num(2, 1) }

\* ... and candidate variances sigma2, among them non-positive ones
Sigma2Values == { Num(-1, 1), Num(0, 1), Num(1, 2), Num(1, 1), Num(2, 1) }

----------------------------------------------------------------------------
(* The notebook *)

\* the prior-hyperparameters cell has run; the posterior cell has not
Init ==
    /\ \E p \in Priors :
          /\ mu_0 = p[1]
          /\ nu_0 = p[2]
          /\ alpha_0 = p[3]
          /\ beta_0 = p[4]
    /\ data = << >>
    /\ mean_d = Unbound
    /\ n = 0
    /\ max_likelihood = Unbound
    /\ mu_post = Unbound
    /\ nu_post = Unbound
    /\ alpha_post = Unbound
    /\ beta_post = Unbound
    /\ pc = "prior"
    /\ execution_count = 0
    /\ density_args = << >>
    /\ density = Unbound
    /\ rvs_size = 0
    /\ samples = Unbound
    /\ curves = << >>
    /\ rvs_calls = << >>
    /\ pmf_args = << >>
    /\ pmf = Unbound
    /\ likelihood_p = Unbound
    /\ likelihood_n = 0
    /\ likelihood = Unbound
    /\ likelihood_pmf = Unbound
    /\ inline_moe = Unbound
    /\ moe_args = << >>
    /\ moe = Unbound
    /\ sample_sizes = << >>
    /\ per = [pct \in Percentages |-> << >>]
    /\ raised = "none"

\* the posterior << mu_post, nu_post, alpha_post, beta_post >> the cell
\* computes from the prior << mu_0, nu_0, alpha_0, beta_0 >> and the data ds
Update(prior, ds) ==
    << MuPost(prior[1], prior[2], Len(ds), np_mean(ds)),
       NuPost(prior[2], Len(ds)),
       AlphaPost(prior[3], Len(ds)),
       BetaPost(prior[4], prior[2], Len(ds), np_mean(ds), np_var(ds)) >>

\* as PosteriorCell, the posterior written back into the prior names
PosteriorCell_InPlace(ds) ==
    /\ data' = ds
    /\ mean_d' = np_mean(ds)
    /\ n' = Len(ds)
    /\ max_likelihood' = np_var(ds)
    /\ mu_post' = MuPost(mu_0, nu_0, n', mean_d')
    /\ nu_post' = NuPost(nu_0, n')
    /\ alpha_post' = AlphaPost(alpha_0, n')
    /\ beta_post' = BetaPost(beta_0, nu_0, n', mean_d', max_likelihood')
    /\ pc' = "posterior"
    /\ execution_count' = execution_count + 1
    /\ raised' = "none"
    /\ mu_0' = mu_post'
    /\ nu_0' = nu_post'
    /\ alpha_0' = alpha_post'
    /\ beta_0' = beta_post'
    /\ UNCHANGED << pdf_vars, sampler_vars, pmf_vars, likelihood_vars, poll_vars >>

\* one execution of the posterior cell with the data vector ds
PosteriorCell(ds) ==
    /\ data' = ds
    /\ mean_d' = np_mean(ds)
    /\ n' = Len(ds)
    /\ max_likelihood' = np_var(ds)
    /\ mu_post' = MuPost(mu_0, nu_0, n', mean_d')
    /\ nu_post' = NuPost(nu_0, n')
    /\ alpha_post' = AlphaPost(alpha_0, n')
    /\ beta_post' = BetaPost(beta_0, nu_0, n', mean_d', max_likelihood')
    /\ pc' = "posterior"
    /\ execution_count' = execution_count + 1
    /\ raised' = "none"
    /\ UNCHANGED << mu_0, nu_0, alpha_0, beta_0 >>
    /\ UNCHANGED << pdf_vars, sampler_vars, pmf_vars, likelihood_vars, poll_vars >>

\* the notebook run top to bottom: the posterior cell runs once
RunPosteriorCell ==
    /\ pc = "prior"
    /\ \E ds \in Datasets : PosteriorCell(ds)

Next == RunPosteriorCell

Spec == Init /\ [][Next]_vars

\* the posterior cell run again and again, each time on another data vector
RerunPosteriorCell ==
    /\ execution_count < MaxRuns
    /\ \E ds \in RerunDatasets : PosteriorCell(ds)

NextRerun == RerunPosteriorCell

SpecRerun == Init /\ [][NextRerun]_vars

\* the first run of the posterior cell, the observations entered in order
RunOnSortedData ==
    /\ pc = "prior"
    /\ \E ds \in SortedDatasets : PosteriorCell(ds)

\* a second run of the posterior cell, on a data vector that has the count,
\* mean and squared deviations of the first: a rearrangement of it or
\* different observations
RerunOnSameStatistics ==
    /\ pc = "posterior"
    /\ execution_count = 1
    /\ \E ds \in Datasets :
          /\ SameStatistics(ds, data)
          /\ PosteriorCell(ds)

NextStatistics == RunOnSortedData \/ RerunOnSameStatistics

SpecStatistics == Init /\ [][NextStatistics]_vars

\* a call norminvgamma_pdf(x, sigma2, mu_0, nu_0, alpha_0, beta_0); with
\* scalar the arguments are Python floats, so that sigma2 / nu raises
\* ZeroDivisionError for nu = 0, otherwise numpy values (inf or nan instead)
PdfCall ==
    /\ density_args = << >>
    /\ \E x \in XValues, sigma2 \in Sigma2Values, scalar \in BOOLEAN :
          /\ density_args' = [x |-> x, sigma2 |-> sigma2, scalar |-> scalar]
          /\ IF scalar /\ nu_0 = Zero
             THEN /\ raised' = "ZeroDivisionError"
                  /\ density' = density
             ELSE /\ raised' = "none"
                  /\ density' = norminvgamma_pdf(x, sigma2, mu_0, nu_0, alpha_0, beta_0)
    /\ UNCHANGED << mu_0, nu_0, alpha_0, beta_0 >>
    /\ UNCHANGED posterior_vars
    /\ UNCHANGED << sampler_vars, pmf_vars, likelihood_vars, poll_vars >>

NextPdf == PdfCall

SpecPdf == Init /\ [][NextPdf]_vars

\* x = np.linspace(-15, 15, 50), the abscissae of the plot
linspace_x == [k |-> "linspace", start |-> -15, stop |-> 15, num |-> 50]

\* the sampling cell: samples = norminvgamma_rvs(mu_0, nu_0, alpha_0, beta_0,
\* size = ...), then for every sample the plot of
\* sts.norm.pdf(x, sample[0], sample[1]), whose second and third positional
\* arguments are loc and scale; when the call of norminvgamma_rvs raises, the
\* cell stops, samples stays unbound and nothing is plotted
SamplesCell ==
    /\ rvs_calls = << >>
    /\ \E size \in 1..MaxSize :
          \E g \in [1..size -> GammaDraws], z \in [1..size -> NormalDraws] :
             LET r == norminvgamma_rvs(mu_0, nu_0, alpha_0, beta_0, size, g, z)
             IN  /\ rvs_size' = size
                 /\ rvs_calls' = r.calls
                 /\ raised' = r.raised
                 /\ samples' = IF r.raised = "none" THEN r.value ELSE samples
                 /\ curves' = IF r.raised = "none"
                              THEN [i \in 1..size |->
                                      norm_pdf(linspace_x, r.value[i][1], r.value[i][2])]
                              ELSE curves
    /\ UNCHANGED << mu_0, nu_0, alpha_0, beta_0 >>
    /\ UNCHANGED posterior_vars
    /\ UNCHANGED << pdf_vars, pmf_vars, likelihood_vars, poll_vars >>

NextSampler == SamplesCell

SpecSampler == Init /\ [][NextSampler]_vars

\* a call beta_binomial_pmf(k, n, alpha, beta) with 0 <= k <= n and positive
\* whole-number shape parameters
PmfCall ==
    /\ pmf_args = << >>
    /\ \E trials \in 0..MaxTrials, alpha \in 1..MaxShape, beta \in 1..MaxShape :
          \E k \in 0..trials :
             /\ pmf_args' = [k |-> k, n |-> trials, alpha |-> alpha, beta |-> beta]
             /\ pmf' = beta_binomial_pmf(k, trials, alpha, beta)
    /\ raised' = "none"
    /\ UNCHANGED << mu_0, nu_0, alpha_0, beta_0 >>
    /\ UNCHANGED posterior_vars
    /\ UNCHANGED << pdf_vars, sampler_vars, likelihood_vars, poll_vars >>

NextPmf == PmfCall

SpecPmf == Init /\ [][NextPmf]_vars

\* the likelihood cell of the eczema notebook: p, n, x, the frozen
\* distribution likelihood = stats.binom(n, p) and the plot of its pmf
LikelihoodCell ==
    /\ likelihood = Unbound
    /\ likelihood_p' = LikelihoodP
    /\ likelihood_n' = LikelihoodN
    /\ likelihood' = [k |-> "binom", n |-> likelihood_n', p |-> likelihood_p']
    /\ likelihood_pmf' = binom_pmf(linspace_k, likelihood_n', likelihood_p')
    /\ raised' = "none"
    /\ UNCHANGED << mu_0, nu_0, alpha_0, beta_0 >>
    /\ UNCHANGED posterior_vars
    /\ UNCHANGED << pdf_vars, sampler_vars, pmf_vars, poll_vars >>

\* the eczema notebook: its likelihood cell and calls of beta_binomial_pmf
NextEczema == LikelihoodCell \/ PmfCall

SpecEczema == Init /\ [][NextEczema]_vars

\* the inline margin-of-error cell
InlineCell ==
    /\ inline_moe = Unbound
    /\ inline_moe' = InlineMOE
    /\ raised' = "none"
    /\ UNCHANGED << mu_0, nu_0, alpha_0, beta_0 >>
    /\ UNCHANGED posterior_vars
    /\ UNCHANGED << pdf_vars, sampler_vars, pmf_vars, likelihood_vars >>
    /\ UNCHANGED << moe_args, moe, sample_sizes, per >>

\* a call MOE(n, p), as in the test cell MOE(100, 0.9)
MoeCall ==
    /\ moe_args = << >>
    /\ \E sample \in MoeSizes, p \in Proportions :
          /\ moe_args' = [n |-> sample, p |-> p]
          /\ moe' = MOE(sample, p)
    /\ raised' = "none"
    /\ UNCHANGED << mu_0, nu_0, alpha_0, beta_0 >>
    /\ UNCHANGED posterior_vars
    /\ UNCHANGED << pdf_vars, sampler_vars, pmf_vars, likelihood_vars >>
    /\ UNCHANGED << inline_moe, sample_sizes, per >>

\* the error margin matrix cell: for every sample size, in the order of
\* sample_sizes, np.round(MOE(sample, 0.1), 0) is appended to per_10, ...,
\* np.round(MOE(sample, 0.9), 0) to per_90
MatrixCell ==
    /\ sample_sizes = << >>
    /\ sample_sizes' = SampleSizes
    /\ per' = [pct \in Percentages |->
                 [i \in 1..Len(SampleSizes) |->
                     np_round(MOE(SampleSizes[i], Num(pct, 100)))]]
    /\ raised' = "none"
    /\ UNCHANGED << mu_0, nu_0, alpha_0, beta_0 >>
    /\ UNCHANGED posterior_vars
    /\ UNCHANGED << pdf_vars, sampler_vars, pmf_vars, likelihood_vars >>
    /\ UNCHANGED << inline_moe, moe_args, moe >>

\* the margin-of-error notebook
NextPoll == InlineCell \/ MoeCall \/ MatrixCell

SpecPoll == Init /\ [][NextPoll]_vars

----------------------------------------------------------------------------
(* Vocabulary of the properties *)

\* nu_0, alpha_0, beta_0 > 0
ValidPrior == Pos(nu_0) /\ Pos(alpha_0) /\ Pos(beta_0)

\* the posterior cell has run to its end and bound the posterior names
Posterior == pc = "posterior"

NonEmpty == Len(data) >= 1

\* n, the number of observations
Count == Num(Len(data), 1)

\* d-bar, the mean of the observations (of a non-empty data vector)
DataMean == Num(Sum(data), Len(data))

\* S, the sum of squared deviations from the mean: sum d_i^2 - (sum d_i)^2 / n
SumSquaredDeviations ==
    FSub(Num(SumOfSquares(data), 1), Num(Sum(data) * Sum(data), Len(data)))

\* beta_0 + S/2 + n nu_0 (d-bar - mu_0)^2 / (2 (nu_0 + n))
TextbookBetaPost ==
    FAdd(FAdd(beta_0, FMul(Num(1, 2), SumSquaredDeviations)),
         FDiv(FMul(FMul(Count, nu_0), FSq(FSub(DataMean, mu_0))),
              FMul(Num(2, 1), FAdd(nu_0, Count))))

IsNumber(x) == x.k = "num"

FMin(x, y) == IF FLeq(x, y) THEN x ELSE y

FMax(x, y) == IF FLeq(x, y) THEN y ELSE x

RECURSIVE Factorial(_)
Factorial(m) == IF m <= 0 THEN 1 ELSE m * Factorial(m - 1)

\* the binomial coefficient m! / (k! (m-k)!)
Binomial(m, k) == Factorial(m) \div (Factorial(k) * Factorial(m - k))

\* Euler's Beta function at positive integers: (a-1)! (b-1)! / (a+b-1)!
EulerBeta(a, b) == Num(Factorial(a - 1) * Factorial(b - 1), Factorial(a + b - 1))

PmfCalled == pmf_args # << >>

MoeCalled == moe_args # << >>

\* (v / z) ** 2 of a value v = z * sqrt(sq)
OverZSquared(v) == v.sq

\* v is a positive multiple of z: v = z * sqrt(sq), sq > 0
IsZMultiple(v) == v.k = "zroot" /\ v.base = Zero /\ v.sgn = 1 /\ Pos(v.sq)

\* v < w for positive multiples of z
ZLess(v, w) == IsZMultiple(v) /\ IsZMultiple(w) /\ FLt(v.sq, w.sq)

MatrixDone == sample_sizes # << >>

\* lo2 < v ** 2 < hi2 for v = z * sqrt(sq), whatever z is between the bounds
\* of z ** 2
ZSquareBetween(lo2, v, hi2) ==
    /\ IsZMultiple(v)
    /\ FLt(lo2, FMul(ZSquaredLow, v.sq))
    /\ FLt(FMul(ZSquaredHigh, v.sq), hi2)

\* v is 1.859 to three decimals: 1.8585 ** 2 < 3.4545 and 3.4577 < 1.8595 ** 2
About1859(v) == ZSquareBetween(Num(34545, 10000), v, Num(34577, 10000))

\* v is 5.88 to two decimals: 5.875 ** 2 < 34.52 and 34.63 < 5.885 ** 2
About588(v) == ZSquareBetween(Num(3452, 100), v, Num(3463, 100))

\* the sampling call returned
Sampled == rvs_calls # << >> /\ raised = "none"

\* sum of beta_binomial_pmf(j, trials, alpha, beta) over j = 0..k
RECURSIVE PmfSum(_, _, _, _)
PmfSum(k, trials, alpha, beta) ==
    IF k < 0 THEN Zero
    ELSE FAdd(PmfSum(k - 1, trials, alpha, beta),
              beta_binomial_pmf(k, trials, alpha, beta))

----------------------------------------------------------------------------
(* Properties *)

\* C1: for a valid prior and n >= 1 observations the posterior cell yields
\* beta_post = beta_0 + S/2 + n nu_0 (d-bar - mu_0)^2 / (2 (nu_0 + n)).
C1_BetaPostTextbook ==
    (Posterior /\ ValidPrior /\ NonEmpty) => beta_post = TextbookBetaPost

\* C2: for nu_0 > 0 and n >= 1 observations the posterior cell yields
\* mu_post = (nu_0 mu_0 + n d-bar) / (nu_0 + n).
C2_MuPost ==
    (Posterior /\ Pos(nu_0) /\ NonEmpty) =>
        mu_post = FDiv(FAdd(FMul(nu_0, mu_0), FMul(Count, DataMean)),
                       FAdd(nu_0, Count))

\* mu_0 = 0, nu_0 = 1, data [1,2,3,4]: mu_post = (0 + 10) / 5 = 2
C2_Witness ==
    /\ Posterior
    /\ mu_0 = Zero
    /\ nu_0 = Num(1, 1)
    /\ data = << 1, 2, 3, 4 >>
    /\ mu_post = Num(2, 1)

\* C3: for n >= 1 observations the posterior cell yields nu_post = nu_0 + n,
\* n being the number of observations.
C3_NuPost ==
    (Posterior /\ NonEmpty) => nu_post = FAdd(nu_0, Count)

\* nu_0 = 1/2 and three observations: nu_post = 7/2
C3_Witness ==
    /\ Posterior
    /\ nu_0 = Num(1, 2)
    /\ Len(data) = 3
    /\ nu_post = Num(7, 2)

\* C4: for n >= 1 observations the posterior cell yields
\* alpha_post = alpha_0 + n/2 with true division (2 alpha_post = 2 alpha_0 + n),
\* so an odd n adds a half-integer.
C4_AlphaPost ==
    (Posterior /\ NonEmpty) =>
        FMul(Num(2, 1), alpha_post) = FAdd(FMul(Num(2, 1), alpha_0), Count)

\* alpha_0 = 1 and three observations: alpha_post = 5/2
C4_Witness ==
    /\ Posterior
    /\ alpha_0 = Num(1, 1)
    /\ Len(data) = 3
    /\ alpha_post = Num(5, 2)

\* C5: for the prior mu_0 = 0, nu_0 = 1, alpha_0 = 1, beta_0 = 1 and the data
\* [1,2,3,4] the posterior cell yields mu_post = 2, nu_post = 5,
\* alpha_post = 3, beta_post = 6.
C5_WorkedExample ==
    ( /\ Posterior
      /\ mu_0 = Zero
      /\ nu_0 = Num(1, 1)
      /\ alpha_0 = Num(1, 1)
      /\ beta_0 = Num(1, 1)
      /\ data = << 1, 2, 3, 4 >> ) =>
        /\ mu_post = Num(2, 1)
        /\ nu_post = Num(5, 1)
        /\ alpha_post = Num(3, 1)
        /\ beta_post = Num(6, 1)

\* C6: for a valid prior and n >= 1 observations the posterior scale never
\* decreases: beta_post >= beta_0.
C6_BetaNeverDecreases ==
    (Posterior /\ ValidPrior /\ NonEmpty) => FLeq(beta_0, beta_post)

\* a valid prior and spread-out data, for which beta_post > beta_0
C6_Witness ==
    /\ Posterior
    /\ ValidPrior
    /\ Len(data) >= 2
    /\ Pos(max_likelihood)
    /\ FLt(beta_0, beta_post)

\* C7: with the prior fixed, a run of the posterior cell on more observations
\* than the run before it yields a strictly larger nu_post and a strictly
\* larger alpha_post, whatever the observations are.
C7_CountMonotone ==
    [][ ( /\ Posterior
          /\ pc' = "posterior"
          /\ << mu_0, nu_0, alpha_0, beta_0 >>' = << mu_0, nu_0, alpha_0, beta_0 >>
          /\ Len(data) < Len(data') ) =>
            /\ FLt(nu_post, nu_post')
            /\ FLt(alpha_post, alpha_post') ]_vars

\* a second run of the cell, on the longest data vector
C7_Witness ==
    /\ Posterior
    /\ execution_count = 2
    /\ Len(data) = MaxN
    /\ FLt(FAdd(nu_0, Num(MaxN - 1, 1)), nu_post)
    /\ FLt(FAdd(alpha_0, Num(MaxN - 1, 2)), alpha_post)

\* C8: the posterior cell run on an empty data vector leaves the
\* hyperparameters unchanged, (mu_post, nu_post, alpha_post, beta_post) =
\* (mu_0, nu_0, alpha_0, beta_0), and yields no not-a-number value.
\* (Stated for valid priors, where the empty data vector is all that is
\* unusual about the input.)
C8_EmptyDataNoOp ==
    (Posterior /\ ValidPrior /\ Len(data) = 0) =>
        /\ IsNumber(mu_post) /\ IsNumber(nu_post)
        /\ IsNumber(alpha_post) /\ IsNumber(beta_post)
        /\ << mu_post, nu_post, alpha_post, beta_post >>
              = << mu_0, nu_0, alpha_0, beta_0 >>

\* C9: an empty data vector is rejected: the posterior cell never runs to its
\* end, binding posterior hyperparameters, on an empty data vector.
\* (Stated for valid priors, as C8.)
C9_EmptyDataRejected ==
    ~(Posterior /\ ValidPrior /\ Len(data) = 0)

\* C10: a non-positive nu, alpha or beta is rejected: the posterior update
\* never runs to its end, yielding posterior hyperparameters, on a prior with
\* nu_0 <= 0, alpha_0 <= 0 or beta_0 <= 0.
\* (Stated for non-empty data, where the prior is all that is wrong with the
\* input.)
C10_InvalidPriorRejected ==
    ~(Posterior /\ NonEmpty /\ ~ValidPrior)

\* C11: norminvgamma_pdf called with sigma2 <= 0 signals an invalid-argument
\* condition instead of returning a numeric value to the caller.
\* (Stated for valid hyperparameters, where sigma2 is all that is wrong.)
C11_NonPositiveVarianceRejected ==
    ( /\ density_args # << >>
      /\ ValidPrior
      /\ FLeq(density_args.sigma2, Zero) ) => raised # "none"

\* C12: for sigma2 > 0 and nu, alpha, beta > 0, norminvgamma_pdf returns the
\* product of the Normal density at x with mean mu and variance sigma2/nu
\* and the InverseGamma density at sigma2 with shape alpha and scale beta.
C12_DensityIsProduct ==
    ( /\ density_args # << >>
      /\ ValidPrior
      /\ Pos(density_args.sigma2) ) =>
        /\ raised = "none"
        /\ density =
             [k |-> "product",
              normal |-> [k |-> "norm.pdf", at |-> density_args.x, mean |-> mu_0,
                          var |-> FDiv(density_args.sigma2, nu_0)],
              invgamma |-> [k |-> "invgamma.pdf", at |-> density_args.sigma2,
                            shape |-> alpha_0, scale |-> beta_0]]

\* sigma2 = 2, nu = 1/2: a normal factor of variance 4 (and scale 2)
C12_Witness ==
    /\ density_args # << >>
    /\ ValidPrior
    /\ density_args.sigma2 = Num(2, 1)
    /\ nu_0 = Num(1, 2)
    /\ density.k = "product"
    /\ density.normal.var = Num(4, 1)

\* C13: for 0 <= k <= n and alpha, beta > 0, beta_binomial_pmf(k, n, alpha,
\* beta) equals C(n,k) * B(k + alpha, n - k + beta) / B(alpha, beta), with C
\* the binomial coefficient and B the Beta function.
C13_PmfFormula ==
    PmfCalled =>
        pmf = FDiv(FMul(Num(Binomial(pmf_args.n, pmf_args.k), 1),
                        EulerBeta(pmf_args.k + pmf_args.alpha,
                                  pmf_args.n - pmf_args.k + pmf_args.beta)),
                   EulerBeta(pmf_args.alpha, pmf_args.beta))

\* pmf(1, 4, 2, 3) = C(4,1) B(3,6) / B(2,3) = 4 * (1/168) * 12 = 2/7
C13_Witness ==
    /\ PmfCalled
    /\ pmf_args = [k |-> 1, n |-> 4, alpha |-> 2, beta |-> 3]
    /\ pmf = Num(2, 7)

\* C14: with alpha = beta = 1 the pmf is uniform on 0..n:
\* beta_binomial_pmf(k, n, 1, 1) = 1 / (n + 1) for every k in 0..n.
C14_UniformPrior ==
    (PmfCalled /\ pmf_args.alpha = 1 /\ pmf_args.beta = 1) =>
        pmf = Num(1, pmf_args.n + 1)

C14_Witness ==
    /\ PmfCalled
    /\ pmf_args.alpha = 1
    /\ pmf_args.beta = 1
    /\ pmf_args.n = MaxTrials
    /\ pmf_args.k = 1
    /\ pmf = Num(1, MaxTrials + 1)

\* C15: for fixed n, alpha, beta the values beta_binomial_pmf(k, n, alpha,
\* beta), k = 0..n, sum to 1.
C15_PmfSumsToOne ==
    PmfCalled =>
        PmfSum(pmf_args.n, pmf_args.n, pmf_args.alpha, pmf_args.beta) = Num(1, 1)

C15_Witness ==
    /\ PmfCalled
    /\ pmf_args.n = MaxTrials
    /\ pmf_args.alpha = 2
    /\ pmf_args.beta = 3
    /\ PmfSum(pmf_args.n - 1, pmf_args.n, 2, 3) # Num(1, 1)
    /\ PmfSum(pmf_args.n, pmf_args.n, 2, 3) = Num(1, 1)

\* C16: norminvgamma_rvs(mu, nu, alpha, beta, size = k), k >= 1, returns
\* exactly k rows of two columns, x in column 0 and sigma2 in column 1 of
\* every row, never swapped.
C16_SampleMatrixShape ==
    /\ (rvs_calls # << >> /\ ValidPrior) => raised = "none"
    /\ Sampled =>
          /\ Len(samples) = rvs_size
          /\ \A i \in 1..rvs_size :
                /\ Len(samples[i]) = 2
                /\ samples[i][1] = rvs_calls[2].out[i]
                /\ samples[i][1].k = "norm.rvs"
                /\ samples[i][2] = rvs_calls[1].out[i]
                /\ samples[i][2].k = "num"

\* two rows with different variances and different draws of x
C16_Witness ==
    /\ Sampled
    /\ ValidPrior
    /\ rvs_size = 2
    /\ samples[1][2] # samples[2][2]
    /\ samples[1][1].z # samples[2][1].z

\* C20: inside norminvgamma_rvs the variances are drawn first and the x
\* afterwards, and every x_i is drawn from the Normal distribution of mean mu
\* and variance sigma2_i / nu, with the sigma2_i of its own row.
C20_VarianceThenMean ==
    /\ rvs_calls # << >> =>
          /\ rvs_calls[1].f = "invgamma.rvs"
          /\ Len(rvs_calls) = 2 =>
                /\ rvs_calls[2].f = "norm.rvs"
                /\ Len(rvs_calls[1].out) = rvs_size
    /\ Sampled =>
          \A i \in 1..rvs_size :
             /\ samples[i][1].mean = mu_0
             /\ samples[i][1].var = FDiv(samples[i][2], nu_0)

\* nu = 1/2 and two rows whose variances differ: the x of the rows come from
\* normal distributions of different variances 2 * sigma2_i
C20_Witness ==
    /\ Sampled
    /\ ValidPrior
    /\ nu_0 = Num(1, 2)
    /\ rvs_size = 2
    /\ samples[1][1].var = FMul(Num(2, 1), samples[1][2])
    /\ samples[2][1].var = FMul(Num(2, 1), samples[2][2])
    /\ samples[1][1].var # samples[2][1].var

\* C17: the posterior update is a pure function of prior and data: a run of
\* the posterior cell leaves mu_0, nu_0, alpha_0, beta_0 as they were, and a
\* run on the data of the run before yields the same posterior again.
C17_UpdateIsPure ==
    [][ pc' = "posterior" =>
          /\ << mu_0, nu_0, alpha_0, beta_0 >>' = << mu_0, nu_0, alpha_0, beta_0 >>
          /\ (Posterior /\ data' = data) =>
                << mu_post, nu_post, alpha_post, beta_post >>' =
                     << mu_post, nu_post, alpha_post, beta_post >> ]_vars

\* the cell has run MaxRuns times on a valid prior, last on << 1, MaxVal >>
C17_Witness ==
    /\ Posterior
    /\ ValidPrior
    /\ execution_count = MaxRuns
    /\ data = << 1, MaxVal >>
    /\ IsNumber(mu_post)
    /\ IsNumber(beta_post)

C22_PlottedNormalOfSample ==
    (Sampled /\ ValidPrior) =>
        \A i \in 1..rvs_size :
           /\ curves[i].k = "norm.pdf"
           /\ curves[i].mean = samples[i][1]
           /\ curves[i].var = samples[i][2]

\* C23: when the data mean equals the prior mean mu_0, the disagreement term
\* of the beta update vanishes: beta_post = beta_0 + S/2, for every nu_0 > 0
\* and every n >= 1.
C23_NoDisagreementTerm ==
    (Posterior /\ ValidPrior /\ NonEmpty /\ DataMean = mu_0) =>
        beta_post = FAdd(beta_0, FMul(Num(1, 2), SumSquaredDeviations))

\* C24: the posterior depends on the data only through the count n, the mean
\* and the sum of squared deviations: a run of the posterior cell on a
\* permutation of the data, or on other data with the same three statistics,
\* yields the same mu_post, nu_post, alpha_post, beta_post.
C24_SufficientStatistics ==
    [][ ( /\ Posterior
          /\ pc' = "posterior"
          /\ << mu_0, nu_0, alpha_0, beta_0 >>' = << mu_0, nu_0, alpha_0, beta_0 >>
          /\ SameStatistics(data, data') ) =>
            << mu_post, nu_post, alpha_post, beta_post >>' =
                 << mu_post, nu_post, alpha_post, beta_post >> ]_vars

\* the second run was on << 2, 2, 4, 2 >>, the first on the sorted
\* << 2, 2, 2, 4 >> or on << 1, 3, 3, 3 >> (count 4, sum 10, squares 28)
C24_Witness ==
    /\ Posterior
    /\ ValidPrior
    /\ execution_count = 2
    /\ data = << 2, 2, 4, 2 >>
    /\ IsNumber(mu_post)
    /\ IsNumber(beta_post)

\* C25: in the eczema notebook the success probability p = (107/107+34)
\* evaluates to 35, which is no probability in [0, 1] and not 107/141, while
\* n evaluates to 141.
C25_LikelihoodP ==
    likelihood # Unbound =>
        /\ likelihood_p = Num(35, 1)
        /\ ~(FLeq(Zero, likelihood_p) /\ FLeq(likelihood_p, Num(1, 1)))
        /\ likelihood_p # Num(107, 141)
        /\ likelihood_n = 141
        /\ likelihood = [k |-> "binom", n |-> 141, p |-> Num(35, 1)]

\* the cell ran; with p = 35 the plotted pmf is nan throughout
C25_Witness ==
    /\ likelihood # Unbound
    /\ likelihood.p = Num(35, 1)
    /\ likelihood_pmf = NaN

\* C26: MOE(n, p) is the distance from the mean n p to the upper end of the
\* central 95% interval of Normal(n p, sd sqrt(n p (1-p))), as a percentage
\* of n: 100 z sqrt(p (1-p) / n) with z about 1.96; it agrees with the inline
\* computation for n = 1000, p = 0.1 (about 1.859) and MOE(100, 0.9) is
\* about 5.88.
C26_MarginOfError ==
    /\ MoeCalled =>
          /\ IsZMultiple(moe)
          /\ OverZSquared(moe) =
                FMul(Num(100 * 100, 1),
                     FDiv(FMul(moe_args.p, FSub(Num(1, 1), moe_args.p)),
                          Num(moe_args.n, 1)))
          /\ (moe_args.n = 1000 /\ moe_args.p = Num(1, 10) /\ inline_moe # Unbound) =>
                /\ moe = inline_moe
                /\ About1859(moe)
          /\ (moe_args.n = 100 /\ moe_args.p = Num(9, 10)) =>
                About588(moe)
    /\ inline_moe # Unbound => About1859(inline_moe)
    /\ FLt(FSq(Num(195, 100)), ZSquaredLow)
    /\ FLt(ZSquaredHigh, FSq(Num(197, 100)))

\* the inline cell and the call MOE(1000, 0.1) have both run
C26_Witness ==
    /\ MoeCalled
    /\ moe_args = [n |-> 1000, p |-> Num(1, 10)]
    /\ inline_moe # Unbound
    /\ moe = ZRoot(Zero, 1, Num(9, 10))

\* C27: sequential updating equals batch updating: for every split of the
\* data into non-empty D1 and D2, updating the prior with D1 and the result
\* with D2 gives the posterior of one update with the whole data.
C27_SequentialEqualsBatch ==
    (Posterior /\ ValidPrior /\ Len(data) >= 2) =>
        \A i \in 1..(Len(data) - 1) :
           Update(Update(<< mu_0, nu_0, alpha_0, beta_0 >>, SubSeq(data, 1, i)),
                  SubSeq(data, i + 1, Len(data)))
             = << mu_post, nu_post, alpha_post, beta_post >>

\* C28: for nu_0 > 0 and n >= 1, mu_post lies between the prior mean and the
\* data mean, min(mu_0, d-bar) <= mu_post <= max(mu_0, d-bar), and
\* mu_post = mu_0 whenever d-bar = mu_0.
C28_MuPostBetween ==
    (Posterior /\ Pos(nu_0) /\ NonEmpty) =>
        /\ FLeq(FMin(mu_0, DataMean), mu_post)
        /\ FLeq(mu_post, FMax(mu_0, DataMean))
        /\ DataMean = mu_0 => mu_post = mu_0

\* prior mean 2 below the data mean 7/2: mu_post strictly between the two
C28_Witness ==
    /\ Posterior
    /\ Pos(nu_0)
    /\ mu_0 = Num(2, 1)
    /\ data = << 3, 4 >>
    /\ FLt(mu_0, mu_post)
    /\ FLt(mu_post, DataMean)

\* C29: MOE is symmetric in the proportion, MOE(n, p) = MOE(n, 1 - p) for
\* n >= 1 and 0 < p < 1, so the rounded error-margin rows for 10%/90%,
\* 20%/80%, 30%/70% and 40%/60% are pairwise identical.
C29_SymmetricInProportion ==
    /\ MoeCalled =>
          moe = MOE(moe_args.n, FSub(Num(1, 1), moe_args.p))
    /\ MatrixDone =>
          \A pct \in Percentages : per[pct] = per[100 - pct]

\* MOE(2, 0.3) was called and the matrix holds the printed row of 10%
C29_Witness ==
    /\ MoeCalled
    /\ moe_args = [n |-> 2, p |-> Num(3, 10)]
    /\ IsZMultiple(moe)
    /\ MatrixDone
    /\ per[10] = << 2, 2, 3, 4, 6 >>
    /\ per[90] = << 2, 2, 3, 4, 6 >>

\* C30: for fixed p in (0, 1), MOE(n, p) strictly decreases as the sample
\* size n grows, so every error-margin row, listed over the sample sizes
\* [1000, 750, 500, 250, 100], is non-decreasing after rounding.
C30_DecreasingInSampleSize ==
    /\ MoeCalled =>
          \A larger \in MoeSizes :
             larger > moe_args.n => ZLess(MOE(larger, moe_args.p), moe)
    /\ MatrixDone =>
          /\ \A i \in 1..(Len(sample_sizes) - 1) : sample_sizes[i] > sample_sizes[i + 1]
          /\ \A pct \in Percentages :
                \A i \in 1..(Len(sample_sizes) - 1) : per[pct][i] <= per[pct][i + 1]

\* MOE(1, 0.5) was called, the largest margin there is, and the matrix holds
\* the printed row of 50%
C30_Witness ==
    /\ MoeCalled
    /\ moe_args = [n |-> 1, p |-> Num(1, 2)]
    /\ ZLess(MOE(2, Num(1, 2)), moe)
    /\ MatrixDone
    /\ per[50] = << 3, 4, 4, 6, 10 >>

====
